---- MODULE Spec2Model ----
(***************************************************************************)
(* Generalized Hough matcher of CGHMatcher: the lookup table of            *)
(* GradientMatcher::create_ghough_table (src/GradientMatcher.cpp) and the  *)
(* two voting loops of src/ghbase.h, apply_ghough_transform (strict        *)
(* border policy) and apply_ghough_transform_allpix (all-pixel policy).    *)
(*                                                                         *)
(* Code images are 8-bit key images (cv::Mat CV_8U).  An image is a record *)
(* [rows, cols, pix] with pix a function from <<row, col>> to the code.    *)
(* A scale factor (a double in the code) is a rational <<num, den>>; the   *)
(* values used are exactly representable or are clamped to 0.1 / 10.0.     *)
(***************************************************************************)
EXTENDS Integers, Sequences, FiniteSets, TLC

VARIABLES
    m_angstep,   \* GradientMatcher::m_angstep (quantization steps, unclamped)
    m_ghtable,   \* GradientMatcher::m_ghtable (ghbase::T_lookup_table)
    rgrad,       \* code image given to the last create_ghough_table
    scale,       \* scale argument of the last create_ghough_table
    pc,          \* "idle" | "voted" | "crashed"
    policy,      \* voting loop of the last call: "none" | "strict" | "allpix"
    rkeyimg,     \* scene code image of the last voting call
    rvotes,      \* accumulator produced by the last voting call
    reads,       \* table lookups of the last voting call: {<<row, col, code>>}
    emits,       \* votes of the last voting call: {[src, k, mx, my, w, written]}
    rebuilt,     \* the last call was a build that replaced a built table
    ijstep,      \* loop increment of the last voting call (1 in ghbase.h)
    mouse,       \* g_mouse_info, the acquisition mode flag and the last event
    enc          \* m_magthr, and of the last run of the encoder: the gradient
                 \* field, m_angstep and m_magthr as read by it, and rmgo
    ,
    race         \* a build of the table in steps, beside a reader of the table
    ,
    m_max_votes  \* GradientMatcher::m_max_votes, the divisor of the score shown

vars == <<m_angstep, m_ghtable, rgrad, scale, pc, policy, rkeyimg, rvotes, reads, emits,
          rebuilt, ijstep, mouse, enc, race, m_max_votes>>

\* the state outside the matcher's table and its voting calls
nonMatcher == <<mouse, enc, race, m_max_votes>>

-----------------------------------------------------------------------------
(* Bounds of the model *)

MaxCode == 2        \* codes used in the images: 0..MaxCode
MaxTRows == 2       \* template code image: 0..MaxTRows rows
MaxTCols == 4       \* template code image: 0..MaxTCols columns
MaxTPix == 4        \* template code image: at most MaxTPix pixels
MaxLoadRows == 3    \* code image of load_template: 0..MaxLoadRows rows
MaxLoadCols == 4    \* code image of load_template: 0..MaxLoadCols columns
MaxSRows == 3       \* scene code image: 0..MaxSRows rows
MaxSCols == 9       \* scene code image: 0..MaxSCols columns
MaxTFeat == 2       \* nonzero pixels of a template
MaxSFeat == 1       \* nonzero pixels of a scene

(* Program constants *)

ANG_STEP_MAX == 254
ANG_STEP_MIN == 4
DefaultAngstep == 8
VoteModulus == 65536     \* T_VOTE = uint16_t, votes are uint16_t

-----------------------------------------------------------------------------
(* Helpers *)

Max(a, b) == IF a > b THEN a ELSE b

RECURSIVE SumW(_)
\* sum of the field w over a finite set of records
SumW(S) ==
    IF S = {} THEN 0
    ELSE LET e == CHOOSE x \in S : TRUE
         IN  e.w + SumW(S \ {e})

RECURSIVE MaxSet(_)
\* largest member of a finite set of naturals, 0 for the empty set
MaxSet(S) ==
    IF S = {} THEN 0
    ELSE LET e == CHOOSE x \in S : TRUE
         IN  Max(e, MaxSet(S \ {e}))

\* largest accumulator value, 0 for an empty accumulator
Peak(v) == MaxSet({ v[c] : c \in DOMAIN v })

-----------------------------------------------------------------------------
(* Code images *)

Pixels(rows, cols) == (0 .. rows - 1) \X (0 .. cols - 1)

RECURSIVE FeatSets(_, _)
\* the sets of at most n features <<pixel, code>> on distinct pixels of P
FeatSets(P, n) ==
    IF n = 0 THEN {{}}
    ELSE LET prev == FeatSets(P, n - 1)
         IN  prev \cup
             UNION { { s \cup {<<p, c>>} : c \in 1 .. MaxCode } :
                     s \in prev, p \in P }

Functional(s) == \A f, g \in s : f[1] = g[1] => f = g

MkImg(rows, cols, feats) ==
    [rows |-> rows, cols |-> cols,
     pix  |-> [p \in Pixels(rows, cols) |->
                 IF \E f \in feats : f[1] = p
                 THEN (CHOOSE f \in feats : f[1] = p)[2]
                 ELSE 0]]

Images(maxrows, maxcols, maxpix, maxfeat) ==
    UNION { { MkImg(d[1], d[2], fs) :
              fs \in { s \in FeatSets(Pixels(d[1], d[2]), maxfeat) : Functional(s) } } :
            d \in { e \in (0 .. maxrows) \X (0 .. maxcols) : e[1] * e[2] <= maxpix } }

Templates == Images(MaxTRows, MaxTCols, MaxTPix, MaxTFeat)

Scenes == Images(MaxSRows, MaxSCols, MaxSRows * MaxSCols, MaxSFeat)

LoadImages == Images(MaxLoadRows, MaxLoadCols, MaxLoadRows * MaxLoadCols, MaxTFeat)

NoImg == [rows |-> 0, cols |-> 0, pix |-> <<>>]

\* NonzeroPixels without the test of the code
NonzeroPixels_All(img) == Pixels(img.rows, img.cols)

\* the pixels that pass 'if (uu)'
NonzeroPixels(img) == { p \in Pixels(img.rows, img.cols) : img.pix[p] # 0 }

-----------------------------------------------------------------------------
(* ghbase::T_lookup_table.  elems is a sequence: the T_value of key k is   *)
(* elems[k + 1]; the empty sequence is elems == nullptr.  A T_value is the *)
(* sequence of its T_pt_votes [pt |-> [x, y], votes], ct is its length.    *)

ClearedTable ==
    [img_sz |-> [width |-> 0, height |-> 0],
     elem_ct |-> 0, total_votes |-> 0, total_entries |-> 0, elems |-> <<>>]

\* clear that leaves the totals of the old table in place
clear_KeepTotals(t) ==
    [ClearedTable EXCEPT !.total_votes = t.total_votes,
                         !.total_entries = t.total_entries]

\* T_lookup_table::clear
clear(t) == ClearedTable

\* ClampScale that passes every scale value through
ClampScale_None(sc) == sc

\* sanity check of the scale value: fac in [0.1, 10.0]
ClampScale(sc) ==
    IF sc[1] * 10 < sc[2] THEN <<1, 10>>
    ELSE IF sc[1] > 10 * sc[2] THEN <<10, 1>>
    ELSE sc

\* TruncMul that rounds toward minus infinity
TruncMul_Floor(fac, v) == (fac[1] * v) \div fac[2]

\* static_cast<int>(fac * v): truncation toward zero
TruncMul(fac, v) ==
    IF v < 0 THEN -((fac[1] * (-v)) \div fac[2])
    ELSE (fac[1] * v) \div fac[2]

\* OffsetPt taken from the pixel to the reference point the wrong way round
OffsetPt_Reversed(img, fac, p) ==
    [x |-> TruncMul(fac, p[2] - (img.cols \div 2)),
     y |-> TruncMul(fac, p[1] - (img.rows \div 2))]

\* offset_pt of the template pixel <<i, j>>
OffsetPt(img, fac, p) ==
    [x |-> TruncMul(fac, (img.cols \div 2) - p[2]),
     y |-> TruncMul(fac, (img.rows \div 2) - p[1])]

\* cmpCvPoint: by X then by Y
cmpCvPoint(a, b) == (a.x < b.x) \/ ((a.x = b.x) /\ (a.y < b.y))

\* PointCounts with the count of a point never incremented past 1
PointCounts_NoIncrement(img, fac, uu) ==
    LET src == { p \in NonzeroPixels(img) : img.pix[p] = uu }
    IN  { [pt |-> q, votes |-> 1] : q \in { OffsetPt(img, fac, p) : p \in src } }

\* the std::map<cv::Point, uint16_t> of one code: lookup_table[uu][offset_pt]++
PointCounts(img, fac, uu) ==
    LET src == { p \in NonzeroPixels(img) : img.pix[p] = uu }
        pts == { OffsetPt(img, fac, p) : p \in src }
    IN  { [pt |-> q,
           votes |-> Cardinality({ p \in src : OffsetPt(img, fac, p) = q })
                     % VoteModulus] : q \in pts }

RECURSIVE SortedEntries_Doubled(_)
\* SortedEntries that copies every map element twice
SortedEntries_Doubled(S) ==
    IF S = {} THEN <<>>
    ELSE LET m == CHOOSE e \in S : \A o \in S \ {e} : cmpCvPoint(e.pt, o.pt)
         IN  <<m, m>> \o SortedEntries_Doubled(S \ {m})

RECURSIVE SortedEntries(_)
\* iteration of the inner map in key order, copied into pt_votes[k++]
SortedEntries(S) ==
    IF S = {} THEN <<>>
    ELSE LET m == CHOOSE e \in S : \A o \in S \ {e} : cmpCvPoint(e.pt, o.pt)
         IN  <<m>> \o SortedEntries(S \ {m})

\* max_code: the largest code of the image, 0 when there is none
TableMaxCode(img) == MaxSet({ img.pix[p] : p \in NonzeroPixels(img) })

\* keys of lookup_table after the blank entries for 0..max_code are added
LookupKeys(img) == 0 .. TableMaxCode(img)

RECURSIVE SumVotes(_)
SumVotes(sq) == IF sq = <<>> THEN 0 ELSE Head(sq).votes + SumVotes(Tail(sq))

\* the dense table: m_ghtable.clear(), then img_sz, elem_ct, elems and the
\* totals are filled from lookup_table
FillTable(t, img, fac) ==
    LET t0 == clear(t)
        n  == Cardinality(LookupKeys(img))
        el == [k \in 1 .. n |-> SortedEntries(PointCounts(img, fac, k - 1))]
    IN  [img_sz |-> [width |-> img.cols, height |-> img.rows],
         elem_ct |-> n,
         total_votes |-> t0.total_votes
                         + SumW({ [k |-> k, w |-> SumVotes(el[k])] : k \in 1 .. n }),
         total_entries |-> t0.total_entries
                         + SumW({ [k |-> k, w |-> Len(el[k])] : k \in 1 .. n }),
         elems |-> el]

-----------------------------------------------------------------------------
(* Voting loops of ghbase.h *)

\* rows visited by apply_ghough_transform
StrictRows(img, t) ==
    (t.img_sz.height \div 2) .. (img.rows - (t.img_sz.height \div 2) - 1)

\* StrictCols with the whole template width as the margin
StrictCols_FullWidth(img, t) ==
    t.img_sz.width .. (img.cols - t.img_sz.width - 1)

\* columns visited by apply_ghough_transform
StrictCols(img, t) ==
    (t.img_sz.width \div 2) .. (img.cols - (t.img_sz.width \div 2) - 1)

\* rows and columns visited by apply_ghough_transform_allpix
AllpixRows(img) == 1 .. (img.rows - 2)

AllpixCols(img) == 1 .. (img.cols - 2)

\* rtable.elems[uu] is an element of the array
ValidKey(t, uu) == uu < t.elem_ct

\* what a read of rtable.elems[uu] past the array (or through nullptr) may
\* yield when it does not trap: an empty T_value or one stray point
GarbageValues == { <<>>, << [pt |-> [x |-> 0, y |-> 0], votes |-> 1] >> }

\* rtable.elems[uu]: pt_votes and ct
Lookup(t, uu, g) == IF ValidKey(t, uu) THEN t.elems[uu + 1] ELSE g

InBounds(img, mx, my) ==
    (mx >= 0) /\ (mx < img.cols) /\ (my >= 0) /\ (my < img.rows)

\* the votes of the pixels V: one record per pixel and table entry
Emissions(img, t, V, g) ==
    UNION { LET pt_votes == Lookup(t, img.pix[p], g)
            IN  { [src |-> p, k |-> k,
                   mx |-> p[2] + pt_votes[k].pt.x,
                   my |-> p[1] + pt_votes[k].pt.y,
                   w  |-> pt_votes[k].votes] : k \in 1 .. Len(pt_votes) } :
            p \in V }

\* strict loop: *(rvotes.ptr<T_VOTE>(my) + mx) += votes, no range check.
\* The Mat is continuous, the element written is my * cols + mx: a cell of
\* the accumulator, or memory outside it (no cell changes).
StrictLand(img, e) ==
    LET lin == e.my * img.cols + e.mx
    IN  IF lin >= 0 /\ lin < img.rows * img.cols
        THEN {<< lin \div img.cols, lin % img.cols >>}
        ELSE {}

\* AllpixLand without the range check of mx and my
AllpixLand_NoCheck(img, e) == StrictLand(img, e)

\* all-pixel loop: the write happens only inside the output image
AllpixLand(img, e) ==
    IF InBounds(img, e.mx, e.my) THEN {<< e.my, e.mx >>} ELSE {}

\* cv::Mat::zeros, then the += of every vote that lands on a cell
Accumulate(img, E, pol) ==
    [c \in Pixels(img.rows, img.cols) |->
        SumW({ e \in E : c \in IF pol = "strict" THEN StrictLand(img, e)
                                ELSE AllpixLand(img, e) }) % VoteModulus]

StrictVisited(img, t) == StrictRows(img, t) \X StrictCols(img, t)

AllpixVisited(img) == AllpixRows(img) \X AllpixCols(img)

ReadsOf(img, V) == { << p[1], p[2], img.pix[p] >> : p \in V }

\* the votes and the accumulator of each loop, for a call that reads only
\* elements of the table
StrictEmits(img, t) ==
    { [src |-> x.src, k |-> x.k, mx |-> x.mx, my |-> x.my, w |-> x.w,
       written |-> TRUE] : x \in Emissions(img, t, StrictVisited(img, t), <<>>) }

AllpixEmits(img, t) ==
    { [src |-> x.src, k |-> x.k, mx |-> x.mx, my |-> x.my, w |-> x.w,
       written |-> AllpixLand(img, x) # {}] :
      x \in Emissions(img, t, AllpixVisited(img), <<>>) }

StrictVotes(img, t) == Accumulate(img, StrictEmits(img, t), "strict")

AllpixVotes(img, t) ==
    Accumulate(img, { e \in AllpixEmits(img, t) : e.written }, "allpix")

\* the call reads past the table or writes past the accumulator
Faulty(img, t, rd, E) ==
    \/ \E r \in rd : ~ValidKey(t, r[3])
    \/ \E e \in E : e.written /\ ~InBounds(img, e.mx, e.my)

-----------------------------------------------------------------------------
(* The matcher *)

\* largest code of create_masked_gradient_orientation_img: angstep is clamped
\* to [ANG_STEP_MIN, ANG_STEP_MAX], the angle 0..2pi becomes 1..angstep + 1
EncMaxCode(angstep) ==
    (IF angstep > ANG_STEP_MAX THEN ANG_STEP_MAX
     ELSE IF angstep < ANG_STEP_MIN THEN ANG_STEP_MIN ELSE angstep) + 1

AngstepInputs == {DefaultAngstep}

ScaleInputs == { <<1, 20>>, <<1, 1>>, <<3, 2>>, <<20, 1>> }

NoVotes ==
    /\ policy' = "none"
    /\ rkeyimg' = NoImg
    /\ rvotes' = <<>>
    /\ reads' = {}
    /\ emits' = {}
    /\ ijstep' = 1

\* the values an out-of-range read can take in a call over the pixels V
GarbageFor(img, t, V) ==
    IF \E p \in V : ~ValidKey(t, img.pix[p]) THEN GarbageValues ELSE {<<>>}

\* no build under way, no table read yet
RaceInit ==
    [bpc |-> "idle", img |-> NoImg, key |-> 0, old |-> ClearedTable,
     read |-> FALSE, seen |-> ClearedTable, keys |-> {}]

\* m_magthr = 1.0 (init), no encoder run yet
EncInit ==
    [magthr |-> <<1, 1>>, grad |-> NoImg, angstep |-> DefaultAngstep,
     thr |-> <<1, 1>>, rmgo |-> NoImg]

Point(x, y) == [x |-> x, y |-> y]

\* MouseInfo() and the acquisition mode off; no event delivered yet
MouseInit ==
    [pt0 |-> Point(0, 0), pt1 |-> Point(0, 0),
     rect |-> [x |-> 0, y |-> 0, width |-> 0, height |-> 0],
     mstate |-> "MOFF", acq |-> FALSE, event |-> "none"]

Init ==
    /\ m_angstep = DefaultAngstep
    /\ m_ghtable = ClearedTable
    /\ rgrad = NoImg
    /\ scale = <<1, 1>>
    /\ pc = "idle"
    /\ policy = "none"
    /\ rkeyimg = NoImg
    /\ rvotes = <<>>
    /\ reads = {}
    /\ emits = {}
    /\ rebuilt = FALSE
    /\ ijstep = 1
    /\ mouse = MouseInit
    /\ enc = EncInit
    /\ race = RaceInit
    /\ m_max_votes = 0

\* GradientMatcher::init
init ==
    /\ UNCHANGED <<mouse, enc, race>>
    /\ m_max_votes' = 0
    /\ pc = "idle"
    /\ \E a \in AngstepInputs : m_angstep' = a
    /\ m_ghtable' = clear(m_ghtable)
    /\ rgrad' = NoImg
    /\ scale' = <<1, 1>>
    /\ pc' = "idle"
    /\ rebuilt' = FALSE
    /\ NoVotes

\* GradientMatcher::create_ghough_table(rgrad, scale)
create_ghough_table ==
    /\ UNCHANGED nonMatcher
    /\ pc = "idle"
    /\ \E img \in Templates, sc \in ScaleInputs :
          /\ m_ghtable' = FillTable(m_ghtable, img, ClampScale(sc))
          /\ rgrad' = img
          /\ scale' = sc
    /\ pc' = "idle"
    /\ rebuilt' = (m_ghtable.elem_ct > 0)
    /\ NoVotes
    /\ UNCHANGED m_angstep

\* one voting call over the pixels V; E are its votes
VoteCall(img, pol, V, E) ==
    /\ UNCHANGED nonMatcher
    /\ policy' = pol
    /\ rkeyimg' = img
    /\ reads' = ReadsOf(img, V)
    /\ emits' = E
    /\ ijstep' = 1
    /\ \/ /\ pc' = "voted"
          /\ rvotes' = Accumulate(img, { e \in E : e.written }, pol)
       \/ /\ Faulty(img, m_ghtable, ReadsOf(img, V), E)
          /\ pc' = "crashed"
          /\ rvotes' = <<>>
    /\ rebuilt' = FALSE
    /\ UNCHANGED <<m_angstep, m_ghtable, rgrad, scale>>

\* ghbase::apply_ghough_transform(rkeyimg, rvotes, m_ghtable)
apply_ghough_transform ==
    /\ pc = "idle"
    /\ \E img \in Scenes :
          LET V == StrictVisited(img, m_ghtable)
          IN  \E g \in GarbageFor(img, m_ghtable, V) :
                 LET E == { [src |-> x.src, k |-> x.k, mx |-> x.mx, my |-> x.my,
                             w |-> x.w, written |-> TRUE] :
                            x \in Emissions(img, m_ghtable, V, g) }
                 IN  VoteCall(img, "strict", V, E)

\* ghbase::apply_ghough_transform_allpix(rkeyimg, rvotes, m_ghtable)
apply_ghough_transform_allpix ==
    /\ pc = "idle"
    /\ \E img \in Scenes :
          LET V == AllpixVisited(img)
          IN  \E g \in GarbageFor(img, m_ghtable, V) :
                 LET E == { [src |-> x.src, k |-> x.k, mx |-> x.mx, my |-> x.my,
                             w |-> x.w, written |-> AllpixLand(img, x) # {}] :
                            x \in Emissions(img, m_ghtable, V, g) }
                 IN  VoteCall(img, "allpix", V, E)

\* GradientMatcher::load_template: init_ghough_table_from_img builds the table
\* of the image (m_scale is 1.0), apply_ghough votes on the same image
load_template ==
    /\ UNCHANGED <<mouse, enc, race>>
    /\ pc = "idle"
    /\ \E img \in LoadImages :
          LET t == FillTable(m_ghtable, img, ClampScale(<<1, 1>>))
              V == AllpixVisited(img)
              E == { [src |-> x.src, k |-> x.k, mx |-> x.mx, my |-> x.my,
                      w |-> x.w, written |-> AllpixLand(img, x) # {}] :
                     x \in Emissions(img, t, V, <<>>) }
          IN  /\ m_ghtable' = t
              /\ rgrad' = img
              /\ scale' = <<1, 1>>
              /\ policy' = "allpix"
              /\ rkeyimg' = img
              /\ reads' = ReadsOf(img, V)
              /\ emits' = E
              /\ ijstep' = 1
              /\ rvotes' = Accumulate(img, { e \in E : e.written }, "allpix")
              /\ m_max_votes' = Peak(Accumulate(img, { e \in E : e.written }, "allpix"))
    /\ pc' = "voted"
    /\ rebuilt' = (m_ghtable.elem_ct > 0)
    /\ UNCHANGED m_angstep

\* the caller is done with the accumulator of the query
release_votes ==
    /\ UNCHANGED nonMatcher
    /\ pc = "voted"
    /\ pc' = "idle"
    /\ rebuilt' = FALSE
    /\ NoVotes
    /\ UNCHANGED <<m_angstep, m_ghtable, rgrad, scale>>

Next ==
    \/ init
    \/ create_ghough_table
    \/ apply_ghough_transform
    \/ apply_ghough_transform_allpix
    \/ release_votes

\* the matcher under any sequence of builds and queries
Spec == Init /\ [][Next]_vars

NextLoad ==
    \/ init
    \/ load_template
    \/ release_votes

\* the matcher under template loads (reload_template of main.cpp)
SpecLoad == Init /\ [][NextLoad]_vars

-----------------------------------------------------------------------------
(* ghalgo::LookupTable with std::vector entries, its builder and the voting *)
(* loops with the increment ijstep.  A std::vector<cv::Point> is held as    *)
(* the sequence of its points, each a T_pt_votes of one vote (votes++);     *)
(* max_votes is held in total_votes.                                        *)

MaxStepTRows == 2    \* template of create_lookup_table: 0..MaxStepTRows rows
MaxStepTCols == 2    \* template of create_lookup_table: 0..MaxStepTCols columns
MaxStepSRows == 3    \* scene of a strided call: 0..MaxStepSRows rows
MaxStepSCols == 4    \* scene of a strided call: 0..MaxStepSCols columns
MaxStepSFeat == 2    \* nonzero pixels of a scene of a strided call

StepTemplates ==
    Images(MaxStepTRows, MaxStepTCols, MaxStepTRows * MaxStepTCols, MaxTFeat)

StepScenes ==
    Images(MaxStepSRows, MaxStepSCols, MaxStepSRows * MaxStepSCols, MaxStepSFeat)

\* values passed as ijstep
StepInputs == {-1, 0, 1, 2}

\* static_cast<uint8_t>(m_angstep + 1.0)
BuilderMaxKey(angstep) == (angstep + 1) % 256

RECURSIVE PushedPoints(_, _, _)
\* rtable.elems[key] after the row-major scan of the pixels n, n + 1, ...
PushedPoints(img, key, n) ==
    IF n >= img.rows * img.cols THEN <<>>
    ELSE LET p == << n \div img.cols, n % img.cols >>
         IN  (IF img.pix[p] = key
              THEN << [pt |-> [x |-> (img.cols \div 2) - p[2],
                               y |-> (img.rows \div 2) - p[1]], votes |-> 1] >>
              ELSE <<>>) \o PushedPoints(img, key, n + 1)

\* create_lookup_table(rkey, max_key, rtable); key 0 is never pushed
VectorTable(img, max_key) ==
    LET el == [k \in 1 .. max_key + 1 |->
                 IF k = 1 THEN <<>> ELSE PushedPoints(img, k - 1, 0)]
        n  == SumW({ [k |-> k, w |-> Len(el[k])] : k \in 1 .. max_key + 1 })
    IN  [img_sz |-> [width |-> img.cols, height |-> img.rows],
         elem_ct |-> max_key + 1,
         total_votes |-> n,
         total_entries |-> n,
         elems |-> el]

\* LoopValues with the visits of the increments 1 and 2 exchanged
LoopValues_Swapped(lo, hi, step) ==
    { i \in lo .. hi - 1 : (i - lo) % (3 - step) = 0 }

\* the values i takes in for (i = lo; i < hi; i += step), step >= 1
LoopValues(lo, hi, step) == { i \in lo .. hi - 1 : (i - lo) % step = 0 }

RowLo(img, t, pol) == IF pol = "strict" THEN t.img_sz.height \div 2 ELSE 1

RowHi(img, t, pol) ==
    IF pol = "strict" THEN img.rows - (t.img_sz.height \div 2) ELSE img.rows - 1

ColLo(img, t, pol) == IF pol = "strict" THEN t.img_sz.width \div 2 ELSE 1

ColHi(img, t, pol) ==
    IF pol = "strict" THEN img.cols - (t.img_sz.width \div 2) ELSE img.cols - 1

\* pixels visited by a call with ijstep = step >= 1
StepVisited(img, t, pol, step) ==
    LoopValues(RowLo(img, t, pol), RowHi(img, t, pol), step)
        \X LoopValues(ColLo(img, t, pol), ColHi(img, t, pol), step)

\* the votes of a call with ijstep = step >= 1 (g: value of a read past elems)
StepEmits(img, t, pol, step, g) ==
    { [src |-> x.src, k |-> x.k, mx |-> x.mx, my |-> x.my, w |-> x.w,
       written |-> (pol = "strict") \/ (AllpixLand(img, x) # {})] :
      x \in Emissions(img, t, StepVisited(img, t, pol, step), g) }

\* the accumulator of a call with ijstep = step >= 1 on a table it indexes
StepVotes(img, t, pol, step) ==
    Accumulate(img, { e \in StepEmits(img, t, pol, step, <<>>) : e.written }, pol)

\* one strided voting call.  With step < 1 and a first row inside the loop
\* bound, i += ijstep never reaches the bound: with step = 0 the call spins
\* on its first row; with step < 0 it also walks off the top of the image.
StepCall(img, pol, step) ==
    LET t == m_ghtable
        finishes == (step >= 1) \/ (RowLo(img, t, pol) >= RowHi(img, t, pol))
        V == IF step >= 1 THEN StepVisited(img, t, pol, step) ELSE {}
        first == IF ColLo(img, t, pol) < ColHi(img, t, pol)
                 THEN {<< RowLo(img, t, pol), ColLo(img, t, pol) >>} ELSE {}
    IN  /\ UNCHANGED nonMatcher
        /\ policy' = pol
        /\ rkeyimg' = img
        /\ ijstep' = step
        /\ rebuilt' = FALSE
        /\ UNCHANGED <<m_angstep, m_ghtable, rgrad, scale>>
        /\ IF finishes
           THEN \E g \in GarbageFor(img, t, V) :
                   LET E == StepEmits(img, t, pol, IF step >= 1 THEN step ELSE 1, g)
                       EE == IF step >= 1 THEN E ELSE {}
                   IN  /\ reads' = ReadsOf(img, V)
                       /\ emits' = EE
                       /\ \/ /\ pc' = "voted"
                             /\ rvotes' = Accumulate(img, { e \in EE : e.written }, pol)
                          \/ /\ Faulty(img, t, ReadsOf(img, V), EE)
                             /\ pc' = "crashed"
                             /\ rvotes' = <<>>
           ELSE /\ reads' = ReadsOf(img, first)
                /\ emits' = {}
                /\ rvotes' = <<>>
                /\ pc' \in (IF step = 0 THEN {"hung"} ELSE {"hung", "crashed"})

\* GradientMatcher::create_ghough_table of the std::vector table:
\* create_lookup_table(rgrad, static_cast<uint8_t>(m_angstep + 1.0), m_ghtable)
create_lookup_table ==
    /\ UNCHANGED nonMatcher
    /\ pc = "idle"
    /\ \E img \in StepTemplates :
          /\ m_ghtable' = VectorTable(img, BuilderMaxKey(m_angstep))
          /\ rgrad' = img
    /\ scale' = <<1, 1>>
    /\ pc' = "idle"
    /\ rebuilt' = (m_ghtable.elem_ct > 0)
    /\ NoVotes
    /\ UNCHANGED m_angstep

\* apply_ghough_transform(rkeyimg, rvotes, rtable, ijstep)
apply_ghough_transform_ijstep ==
    /\ pc = "idle"
    /\ \E img \in StepScenes, step \in StepInputs : StepCall(img, "strict", step)

\* apply_ghough_transform_allpix(rkeyimg, rvotes, rtable, ijstep)
apply_ghough_transform_allpix_ijstep ==
    /\ pc = "idle"
    /\ \E img \in StepScenes, step \in StepInputs : StepCall(img, "allpix", step)

NextStep ==
    \/ init
    \/ create_lookup_table
    \/ apply_ghough_transform_ijstep
    \/ apply_ghough_transform_allpix_ijstep
    \/ release_votes

\* the matcher over the std::vector table with strided queries
SpecStep == Init /\ [][NextStep]_vars

-----------------------------------------------------------------------------
(* The viewer of main.cpp: MouseInfo, the mouse callback, the acquisition   *)
(* mode flag of the knobs and the MACQ step of the processing loop.         *)

MaxMouseXY == 1      \* mouse coordinates: 0..MaxMouseXY

MouseXY == 0 .. MaxMouseXY

\* events of cv::MouseEventTypes delivered to the callback
MouseEvents ==
    { "EVENT_MOUSEMOVE", "EVENT_LBUTTONDOWN", "EVENT_RBUTTONDOWN",
      "EVENT_LBUTTONUP", "EVENT_RBUTTONUP", "EVENT_LBUTTONDBLCLK",
      "EVENT_MOUSEWHEEL" }

\* cv::Rect(pt1, pt2): the corner is the minimum, the size the difference
Rect(a, b) ==
    [x |-> IF a.x < b.x THEN a.x ELSE b.x,
     y |-> IF a.y < b.y THEN a.y ELSE b.y,
     width  |-> Max(a.x, b.x) - (IF a.x < b.x THEN a.x ELSE b.x),
     height |-> Max(a.y, b.y) - (IF a.y < b.y THEN a.y ELSE b.y)]

\* MouseInfo::clear (acq is Knobs' acquisition mode flag, event the last
\* event the callback was given)
MouseClear(m) ==
    [m EXCEPT !.pt0 = Point(0, 0), !.pt1 = Point(0, 0),
              !.rect = [x |-> 0, y |-> 0, width |-> 0, height |-> 0],
              !.mstate = "MOFF"]

\* MouseApply without the test of mstate before the change to MPT0
MouseApply_NoGuard(m, x) ==
    IF x THEN [m EXCEPT !.mstate = "MPT0"]
    ELSE (IF m.mstate # "MOFF" THEN MouseClear(m) ELSE m)

\* MouseInfo::apply(x)
MouseApply(m, x) ==
    IF x THEN (IF m.mstate = "MOFF" THEN [m EXCEPT !.mstate = "MPT0"] ELSE m)
    ELSE (IF m.mstate # "MOFF" THEN MouseClear(m) ELSE m)

\* the last test of the callback with a comparison in place of '='
IsDblClk_Compared(event) == event = "EVENT_LBUTTONDBLCLK"

\* 'else if (event = EVENT_LBUTTONDBLCLK)': the assignment yields 7, which
\* is true for every event that comes this far
IsDblClk(event) == TRUE

\* CallBackFunc(event, x, y, flags, userdata) on the MouseInfo m
Callback(m, event, x, y) ==
    IF m.mstate = "MOFF" THEN m
    ELSE IF event = "EVENT_LBUTTONDOWN"
    THEN (IF m.mstate = "MPT0"
          THEN [m EXCEPT !.pt0 = Point(x, y), !.pt1 = Point(x, y),
                         !.rect = Rect(Point(x, y), Point(x, y)),
                         !.mstate = "MMOV"]
          ELSE m)
    ELSE IF event = "EVENT_LBUTTONUP"
    THEN (IF m.mstate = "MMOV"
          THEN [m EXCEPT !.pt1 = Point(x, y), !.rect = Rect(m.pt0, Point(x, y)),
                         !.mstate = "MPT1"]
          ELSE m)
    ELSE IF event = "EVENT_MOUSEMOVE"
    THEN (IF m.mstate = "MMOV"
          THEN [m EXCEPT !.pt1 = Point(x, y), !.rect = Rect(m.pt0, Point(x, y))]
          ELSE m)
    ELSE IF IsDblClk(event)
    THEN (IF m.mstate = "MPT1" THEN [m EXCEPT !.mstate = "MACQ"] ELSE m)
    ELSE m

\* the mouse callback, run by waitKey between two loop iterations
CallBackFunc ==
    /\ pc = "idle"
    /\ \E event \in MouseEvents, x \in MouseXY, y \in MouseXY :
          mouse' = [Callback(mouse, event, x, y) EXCEPT !.event = event]
    /\ UNCHANGED <<m_max_votes, m_angstep, m_ghtable, rgrad, scale, pc, policy, rkeyimg,
                   rvotes, reads, emits, rebuilt, ijstep, enc, race>>

\* a key press that toggles the acquisition mode (Knobs::handle_keypress)
handle_keypress ==
    /\ pc = "idle"
    /\ mouse' = [mouse EXCEPT !.acq = ~mouse.acq]
    /\ UNCHANGED <<m_max_votes, m_angstep, m_ghtable, rgrad, scale, pc, policy, rkeyimg,
                   rvotes, reads, emits, rebuilt, ijstep, enc, race>>

\* encoded images of the acquisition rectangle
AcqImages(rect) ==
    { MkImg(rect.height, rect.width, fs) :
      fs \in { f \in FeatSets(Pixels(rect.height, rect.width), MaxTFeat) :
               Functional(f) } }

\* one iteration of the processing loop: in MACQ the rectangle becomes the
\* template (init_ghough_table_from_img), the acquisition mode is toggled
\* and the mouse state cleared; then g_mouse_info.apply(acquisition mode)
loop ==
    /\ pc = "idle"
    /\ IF mouse.mstate = "MACQ"
       THEN /\ \E img \in AcqImages(mouse.rect) :
                  /\ m_ghtable' = FillTable(m_ghtable, img, ClampScale(<<1, 1>>))
                  /\ rgrad' = img
            /\ scale' = <<1, 1>>
            /\ rebuilt' = (m_ghtable.elem_ct > 0)
            /\ mouse' = MouseApply(MouseApply([mouse EXCEPT !.acq = ~mouse.acq], FALSE),
                                   ~mouse.acq)
       ELSE /\ mouse' = MouseApply(mouse, mouse.acq)
            /\ UNCHANGED <<m_ghtable, rgrad, scale, rebuilt>>
    /\ NoVotes
    /\ UNCHANGED <<m_max_votes, m_angstep, pc, enc, race>>

NextMouse ==
    \/ CallBackFunc
    \/ handle_keypress
    \/ loop

\* the viewer under mouse events, key presses and loop iterations
SpecMouse == Init /\ [][NextMouse]_vars

ReloadSide == 3      \* encoded template file: ReloadSide rows and columns

\* square code images with at most one nonzero pixel
ReloadImages ==
    { MkImg(ReloadSide, ReloadSide, fs) :
      fs \in FeatSets(Pixels(ReloadSide, ReloadSide), 1) }

\* reload_template: theMatcher.init, then load_template builds the table of
\* the file's image and votes on that image; m_max_votes is the peak of
\* that accumulator (img_match is local to load_template)
reload_template ==
    /\ pc = "idle"
    /\ \E img \in ReloadImages :
          LET t == FillTable(clear(m_ghtable), img, ClampScale(<<1, 1>>))
          IN  /\ m_ghtable' = t
              /\ rgrad' = img
              /\ m_max_votes' = Peak(AllpixVotes(img, t))
    /\ m_angstep' = DefaultAngstep
    /\ scale' = <<1, 1>>
    /\ rebuilt' = FALSE
    /\ NoVotes
    /\ UNCHANGED <<pc, mouse, enc, race>>

NextNorm ==
    \/ reload_template
    \/ CallBackFunc
    \/ handle_keypress
    \/ loop

\* the viewer with template files loaded and templates acquired by mouse
SpecNorm == Init /\ [][NextNorm]_vars

-----------------------------------------------------------------------------
(* The encoder.  Its input is what cv::Sobel and cv::cartToPolar hand to    *)
(* it: per pixel a magnitude (an integer here) and an angle; the angle      *)
(* a * 2pi / AngDen is held as a in 0..AngDen, AngDen being the angle 2pi.  *)

AngDen == 4          \* angles are multiples of 2pi / AngDen
MaxMag == 2          \* gradient magnitudes: 0..MaxMag
MaxGradCols == 2     \* gradient field: 1 row of 0..MaxGradCols columns

\* values of m_angstep: below ANG_STEP_MIN, inside the range, above ANG_STEP_MAX
AngstepValues == {2, 8, 256}

\* values of m_magthr
MagthrValues == { <<1, 2>>, <<1, 1>> }

\* magnitude and angle of one pixel: the angle of a zero gradient is 0
GradPixels ==
    { [mag |-> 0, ang |-> 0] }
        \cup [mag : 1 .. MaxMag, ang : 0 .. AngDen]

\* the gradient fields given to the encoder
GradFields ==
    UNION { { [rows |-> IF c = 0 THEN 0 ELSE 1, cols |-> c, pix |-> f] :
              f \in [Pixels(IF c = 0 THEN 0 ELSE 1, c) -> GradPixels] } :
            c \in 0 .. MaxGradCols }

\* angstep after the two clamping assignments
ClampAngstep(angstep) ==
    IF angstep > ANG_STEP_MAX THEN ANG_STEP_MAX
    ELSE IF angstep < ANG_STEP_MIN THEN ANG_STEP_MIN ELSE angstep

\* cvRound of num / den (den > 0, num >= 0): to nearest, ties to even
RoundHalfEven(num, den) ==
    LET q == num \div den
        r == num % den
    IN  IF 2 * r < den THEN q
        ELSE IF 2 * r > den THEN q + 1
        ELSE IF q % 2 = 0 THEN q ELSE q + 1

\* saturate_cast<uchar>
Sat8(v) == IF v < 0 THEN 0 ELSE IF v > 255 THEN 255 ELSE v

\* EncodeAngle without the offset beta = 1.0
EncodeAngle_NoOffset(steps, a) == Sat8(RoundHalfEven(a * steps, AngDen))

\* convertTo(rmgo, CV_8U, angstep / CV_2PI, 1.0) of the angle a * 2pi / AngDen:
\* saturate_cast<uchar>(cvRound(angle * angstep / 2pi + 1.0))
EncodeAngle(steps, a) == Sat8(RoundHalfEven(a * steps + AngDen, AngDen))

\* qmax of minMaxLoc(temp_mag), 0 for an empty field
PeakMag(g) == MaxSet({ g.pix[p].mag : p \in Pixels(g.rows, g.cols) })

\* Unmasked with >= in place of >
Unmasked_NonStrict(g, magthr, p) == g.pix[p].mag * magthr[2] >= PeakMag(g) * magthr[1]

\* temp_mask = (temp_mag > qmax * m_magthr)
Unmasked(g, magthr, p) == g.pix[p].mag * magthr[2] > PeakMag(g) * magthr[1]

\* create_masked_gradient_orientation_img: rmgo of the gradient field g
Encode(g, angstep, magthr) ==
    [rows |-> g.rows, cols |-> g.cols,
     pix  |-> [p \in Pixels(g.rows, g.cols) |->
                 IF Unmasked(g, magthr, p)
                 THEN EncodeAngle(ClampAngstep(angstep), g.pix[p].ang)
                 ELSE 0]]

\* assignment to the public member m_angstep
set_m_angstep ==
    /\ pc = "idle"
    /\ \E a \in AngstepValues : m_angstep' = a
    /\ UNCHANGED <<m_max_votes, m_ghtable, rgrad, scale, pc, policy, rkeyimg, rvotes, reads,
                   emits, rebuilt, ijstep, mouse, enc, race>>

\* assignment to the public member m_magthr
set_m_magthr ==
    /\ pc = "idle"
    /\ \E m \in MagthrValues : enc' = [enc EXCEPT !.magthr = m]
    /\ UNCHANGED <<m_max_votes, m_angstep, m_ghtable, rgrad, scale, pc, policy, rkeyimg, rvotes,
                   reads, emits, rebuilt, ijstep, mouse, race>>

\* GradientMatcher::init_ghough_table_from_img over the std::vector table:
\* create_masked_gradient_orientation_img, then create_lookup_table with the
\* key limit
\* static_cast<uint8_t>(m_angstep + 1.0).  A code above the limit makes
\* rtable.elems[ghkey].push_back run past elems: the build traps, or goes on
\* without the point.
init_ghough_table_from_img ==
    /\ pc = "idle"
    /\ \E g \in GradFields :
          LET img == Encode(g, m_angstep, enc.magthr)
              max_key == BuilderMaxKey(m_angstep)
              fits == \A p \in NonzeroPixels(img) : img.pix[p] <= max_key
          IN  /\ enc' = [enc EXCEPT !.grad = g, !.angstep = m_angstep,
                                     !.thr = enc.magthr, !.rmgo = img]
              /\ rgrad' = img
              /\ \/ /\ m_ghtable' = VectorTable(img, max_key)
                    /\ pc' = "idle"
                 \/ /\ ~fits
                    /\ m_ghtable' = [VectorTable(NoImg, max_key) EXCEPT
                                       !.img_sz = [width |-> img.cols,
                                                   height |-> img.rows]]
                    /\ pc' = "crashed"
    /\ scale' = <<1, 1>>
    /\ rebuilt' = (m_ghtable.elem_ct > 0)
    /\ NoVotes
    /\ UNCHANGED <<m_max_votes, m_angstep, mouse, race>>

NextEnc ==
    \/ set_m_angstep
    \/ set_m_magthr
    \/ init_ghough_table_from_img

\* the matcher under configuration changes, encoder runs and template builds
SpecEnc == Init /\ [][NextEnc]_vars

\* the magthr argument of init: the fractions 0, 1/2 and 1
MaskFractions == { <<0, 1>>, <<1, 2>>, <<1, 1>> }

\* GradientMatcher::init(kblur, ksobel, scale, magthr, angstep), as far as
\* the encoder sees it: m_magthr = magthr, m_angstep = angstep
init_magthr ==
    /\ pc = "idle"
    /\ \E m \in MaskFractions : enc' = [enc EXCEPT !.magthr = m]
    /\ \E a \in AngstepInputs : m_angstep' = a
    /\ UNCHANGED <<m_max_votes, m_ghtable, rgrad, scale, pc, policy, rkeyimg, rvotes,
                   reads, emits, rebuilt, ijstep, mouse, race>>

\* GradientMatcher::create_masked_gradient_orientation_img(rimg, rmgo)
create_masked_gradient_orientation_img ==
    /\ pc = "idle"
    /\ \E g \in GradFields :
          enc' = [enc EXCEPT !.grad = g, !.angstep = m_angstep,
                             !.thr = enc.magthr,
                             !.rmgo = Encode(g, m_angstep, enc.magthr)]
    /\ UNCHANGED <<m_max_votes, m_angstep, m_ghtable, rgrad, scale, pc, policy, rkeyimg,
                   rvotes, reads, emits, rebuilt, ijstep, mouse, race>>

NextMask ==
    \/ init_magthr
    \/ create_masked_gradient_orientation_img

\* the encoder alone, under every magnitude threshold fraction
SpecMask == Init /\ [][NextMask]_vars

-----------------------------------------------------------------------------
(* create_ghough_table statement by statement, with a voting pass of        *)
(* another thread reading m_ghtable in between.  race.bpc is the builder's  *)
(* position, race.img its rgrad, race.key the next key of the fill loop,    *)
(* race.old the table when the build began, race.seen the table a voting    *)
(* pass read since then (race.read).  The code takes no lock and m_ghtable *)
(* is a plain struct, so every interleaving of the statements can occur.    *)
(* race.keys are the keys of the local std::map lookup_table.               *)

MaxRaceCols == 2     \* template of a build in steps: 1 row of 0..MaxRaceCols columns

RaceTemplates == Images(1, MaxRaceCols, MaxRaceCols, MaxTFeat)

\* lines 72-113: fac, the offsets and the local std::map are computed
build_begin ==
    /\ pc = "idle"
    /\ race.bpc = "idle"
    /\ \E img \in RaceTemplates :
          race' = [bpc |-> "clear", img |-> img, key |-> 0, old |-> m_ghtable,
                   read |-> FALSE, seen |-> ClearedTable, keys |-> LookupKeys(img)]
    /\ UNCHANGED <<m_max_votes, m_angstep, m_ghtable, rgrad, scale, pc, policy, rkeyimg, rvotes,
                   reads, emits, rebuilt, ijstep, mouse, enc>>

\* line 116: m_ghtable.clear()
build_clear ==
    /\ race.bpc = "clear"
    /\ m_ghtable' = clear(m_ghtable)
    /\ race' = [race EXCEPT !.bpc = "alloc"]
    /\ UNCHANGED <<m_max_votes, m_angstep, rgrad, scale, pc, policy, rkeyimg, rvotes,
                   reads, emits, rebuilt, ijstep, mouse, enc>>

\* lines 120-122: img_sz, elem_ct and the array of empty T_value
build_alloc ==
    /\ race.bpc = "alloc"
    /\ LET n == Cardinality(LookupKeys(race.img))
       IN  /\ m_ghtable' = [m_ghtable EXCEPT
                              !.img_sz = [width |-> race.img.cols,
                                          height |-> race.img.rows],
                              !.elem_ct = n,
                              !.elems = [k \in 1 .. n |-> <<>>]]
           /\ race' = [race EXCEPT !.bpc = IF n = 0 THEN "idle" ELSE "fill",
                                   !.key = 0]
           /\ rgrad' = IF n = 0 THEN race.img ELSE rgrad
    /\ UNCHANGED <<m_max_votes, m_angstep, scale, pc, policy, rkeyimg, rvotes,
                   reads, emits, rebuilt, ijstep, mouse, enc>>

\* lines 123-140: one pass of the loop over lookup_table, for the key
\* race.key; after the last key the call returns
build_fill ==
    /\ race.bpc = "fill"
    /\ LET key == race.key
           L == SortedEntries(PointCounts(race.img, ClampScale(<<1, 1>>), key))
           last == key + 1 >= m_ghtable.elem_ct
       IN  /\ m_ghtable' = [m_ghtable EXCEPT
                              !.elems[key + 1] = L,
                              !.total_votes = @ + SumVotes(L),
                              !.total_entries = @ + Len(L)]
           /\ race' = [race EXCEPT !.bpc = IF last THEN "idle" ELSE "fill",
                                   !.key = key + 1]
           /\ rgrad' = IF last THEN race.img ELSE rgrad
    /\ scale' = <<1, 1>>
    /\ UNCHANGED <<m_max_votes, m_angstep, pc, policy, rkeyimg, rvotes,
                   reads, emits, rebuilt, ijstep, mouse, enc>>

\* a voting pass of another thread reads rtable (img_sz, elems[uu])
vote_read ==
    /\ ~race.read
    /\ race' = [race EXCEPT !.read = TRUE, !.seen = m_ghtable]
    /\ UNCHANGED <<m_max_votes, m_angstep, m_ghtable, rgrad, scale, pc, policy, rkeyimg, rvotes,
                   reads, emits, rebuilt, ijstep, mouse, enc>>

NextRace ==
    \/ build_begin
    \/ build_clear
    \/ build_alloc
    \/ build_fill
    \/ vote_read

\* template rebuilds with a concurrent voting pass
SpecRace == Init /\ [][NextRace]_vars

-----------------------------------------------------------------------------
(* The loop of create_ghough_table that adds the blank entries, one pass    *)
(* per step: for (uint8_t key = 0; key <= max_code; key++).  race.key is    *)
(* the 8-bit counter, race.keys the keys of lookup_table.                   *)

\* codes of the one-pixel templates of this loop: none, the two smallest,
\* and the largest the encoder makes (ANG_STEP_MAX + 1 = 255)
BlankCodes == {0, 1, 2, ANG_STEP_MAX + 1}

BlankTemplates ==
    { [rows |-> 1, cols |-> 1, pix |-> [p \in Pixels(1, 1) |-> c]] : c \in BlankCodes }

\* lines 72-104: the scan of rgrad has filled lookup_table and max_code
blank_begin ==
    /\ pc = "idle"
    /\ race.bpc = "idle"
    /\ \E img \in BlankTemplates :
          race' = [race EXCEPT !.bpc = "blank", !.img = img, !.key = 0,
                               !.keys = { img.pix[p] : p \in NonzeroPixels(img) }]
    /\ UNCHANGED <<m_max_votes, m_angstep, m_ghtable, rgrad, scale, pc, policy, rkeyimg,
                   rvotes, reads, emits, rebuilt, ijstep, mouse, enc>>

\* lines 107-113: one pass of the loop body and key++ (uint8_t: modulo 256)
blank_step ==
    /\ race.bpc = "blank"
    /\ race.key <= TableMaxCode(race.img)
    /\ race' = [race EXCEPT !.keys = @ \cup {race.key},
                            !.key = (race.key + 1) % 256]
    /\ UNCHANGED <<m_max_votes, m_angstep, m_ghtable, rgrad, scale, pc, policy, rkeyimg,
                   rvotes, reads, emits, rebuilt, ijstep, mouse, enc>>

\* the loop condition fails; lines 115-140 fill m_ghtable from lookup_table
blank_exit ==
    /\ race.bpc = "blank"
    /\ race.key > TableMaxCode(race.img)
    /\ race' = [race EXCEPT !.bpc = "idle"]
    /\ m_ghtable' = FillTable(m_ghtable, race.img, ClampScale(<<1, 1>>))
    /\ rgrad' = race.img
    /\ scale' = <<1, 1>>
    /\ rebuilt' = (m_ghtable.elem_ct > 0)
    /\ UNCHANGED <<m_max_votes, m_angstep, pc, policy, rkeyimg,
                   rvotes, reads, emits, ijstep, mouse, enc>>

NextBlank ==
    \/ blank_begin
    \/ blank_step
    \/ blank_exit

\* builds of one-pixel templates; a build that has begun keeps running
SpecBlank == Init /\ [][NextBlank]_vars /\ WF_vars(blank_step \/ blank_exit)

-----------------------------------------------------------------------------
(* Builds at scale 1 from templates of at least 2 x 2 pixels and voting     *)
(* calls on scenes large enough to have cells a whole template extent away  *)
(* from every border.                                                       *)

EqTRows == 2         \* rows of these templates
EqMaxTCols == 3      \* columns of these templates: 2..EqMaxTCols
EqSRows == 5         \* rows of these scenes
EqSCols == 7         \* columns of these scenes
EqSFeat == 1         \* nonzero pixels of these scenes

EqTemplates ==
    UNION { { MkImg(EqTRows, w, fs) :
              fs \in { f \in FeatSets(Pixels(EqTRows, w), MaxTFeat) : Functional(f) } } :
            w \in 2 .. EqMaxTCols }

EqScenes ==
    { MkImg(EqSRows, EqSCols, fs) :
      fs \in { f \in FeatSets(Pixels(EqSRows, EqSCols), EqSFeat) : Functional(f) } }

\* GradientMatcher::create_ghough_table(rgrad, 1.0)
create_ghough_table_scale1 ==
    /\ UNCHANGED nonMatcher
    /\ pc = "idle"
    /\ \E img \in EqTemplates :
          /\ m_ghtable' = FillTable(m_ghtable, img, ClampScale(<<1, 1>>))
          /\ rgrad' = img
    /\ scale' = <<1, 1>>
    /\ pc' = "idle"
    /\ rebuilt' = (m_ghtable.elem_ct > 0)
    /\ NoVotes
    /\ UNCHANGED m_angstep

\* ghbase::apply_ghough_transform on one of these scenes
apply_ghough_transform_eq ==
    /\ pc = "idle"
    /\ \E img \in EqScenes :
          LET V == StrictVisited(img, m_ghtable)
          IN  \E g \in GarbageFor(img, m_ghtable, V) :
                 LET E == { [src |-> x.src, k |-> x.k, mx |-> x.mx, my |-> x.my,
                             w |-> x.w, written |-> TRUE] :
                            x \in Emissions(img, m_ghtable, V, g) }
                 IN  VoteCall(img, "strict", V, E)

\* ghbase::apply_ghough_transform_allpix on one of these scenes
apply_ghough_transform_allpix_eq ==
    /\ pc = "idle"
    /\ \E img \in EqScenes :
          LET V == AllpixVisited(img)
          IN  \E g \in GarbageFor(img, m_ghtable, V) :
                 LET E == { [src |-> x.src, k |-> x.k, mx |-> x.mx, my |-> x.my,
                             w |-> x.w, written |-> AllpixLand(img, x) # {}] :
                            x \in Emissions(img, m_ghtable, V, g) }
                 IN  VoteCall(img, "allpix", V, E)

NextEq ==
    \/ create_ghough_table_scale1
    \/ apply_ghough_transform_eq
    \/ apply_ghough_transform_allpix_eq
    \/ release_votes

\* scale-1 tables queried under both policies
SpecEq == Init /\ [][NextEq]_vars

-----------------------------------------------------------------------------
(* Properties *)

\* m_ghtable holds a table made by the builder
Built == m_ghtable.elem_ct > 0

\* a voting call has run (to its end, or to a trap)
Called == pc \in {"voted", "crashed"}

\* the voting call read only elements of the table
ReadsValid == \A r \in reads : ValidKey(m_ghtable, r[3])

\* sum of the votes of every T_pt_votes of the table
TableWeightSum(t) ==
    SumW(UNION { { [k |-> k, i |-> i, w |-> t.elems[k][i].votes] :
                   i \in 1 .. Len(t.elems[k]) } : k \in 1 .. Len(t.elems) })

\* C1: every orientation code a voting loop reads from a scene made under the
\* matcher's configuration is an index of the built table (code < elem_ct).
C1_CodesIndexTable ==
    (Built /\ Called /\ \A r \in reads : r[3] <= EncMaxCode(m_angstep))
        => \A r \in reads : r[3] < m_ghtable.elem_ct

\* C2: a built table has exactly maxCode + 1 entries, maxCode being the
\* configured quantization steps + 1, whatever codes the template holds.
C2_TableSizeFromConfig ==
    Built => m_ghtable.elem_ct = EncMaxCode(m_angstep) + 1

\* C3: after a build the recorded vote total equals the sum of the weights of
\* all offset-vote entries and the number of nonzero-code template pixels.
C3_VoteTotal ==
    Built => /\ m_ghtable.total_votes = TableWeightSum(m_ghtable)
             /\ m_ghtable.total_votes = Cardinality(NonzeroPixels(rgrad))

\* a built table in which two template pixels were merged into one entry
C3_Witness ==
    /\ Built
    /\ Cardinality(NonzeroPixels(rgrad)) = 2
    /\ \E k \in 1 .. Len(m_ghtable.elems) :
          \E i \in 1 .. Len(m_ghtable.elems[k]) : m_ghtable.elems[k][i].votes = 2

\* the last call voted on the code image the table was built from, scale 1
SelfMatch ==
    /\ pc = "voted"
    /\ Built
    /\ rkeyimg = rgrad
    /\ ClampScale(scale) = <<1, 1>>
    /\ rgrad.rows > 0
    /\ rgrad.cols > 0

\* the reference point (cols / 2, rows / 2) as the cell <<row, col>>
RefCell == << rgrad.rows \div 2, rgrad.cols \div 2 >>

SceneValid(img, t) == \A p \in Pixels(img.rows, img.cols) : ValidKey(t, img.pix[p])

\* a strict call over a built table and a scene whose codes index the table
StrictDone ==
    /\ pc = "voted"
    /\ policy = "strict"
    /\ Built
    /\ SceneValid(rkeyimg, m_ghtable)

HalfW == m_ghtable.img_sz.width \div 2

HalfH == m_ghtable.img_sz.height \div 2

\* cells more than half the template's extent from every scene border
InteriorHalf ==
    { c \in Pixels(rkeyimg.rows, rkeyimg.cols) :
        /\ c[1] > HalfH /\ (rkeyimg.rows - 1) - c[1] > HalfH
        /\ c[2] > HalfW /\ (rkeyimg.cols - 1) - c[2] > HalfW }

\* cells at least twice the half extent, and at least 1, from every border
InteriorFull ==
    { c \in Pixels(rkeyimg.rows, rkeyimg.cols) :
        /\ c[1] >= Max(1, 2 * HalfH) /\ (rkeyimg.rows - 1) - c[1] >= Max(1, 2 * HalfH)
        /\ c[2] >= Max(1, 2 * HalfW) /\ (rkeyimg.cols - 1) - c[2] >= Max(1, 2 * HalfW) }

ScaleAtMostOne == ClampScale(scale)[1] <= ClampScale(scale)[2]

C6_StrictInBounds ==
    (Called /\ policy = "strict" /\ Built /\ SceneValid(rkeyimg, m_ghtable))
        => \A e \in emits : InBounds(rkeyimg, e.mx, e.my)

\* C7: the all-pixel loop visits exactly the pixels with 1 <= row <= rows - 2
\* and 1 <= col <= cols - 2, writes a vote only when its destination is inside
\* the accumulator, and the dropped votes change no cell.
C7_AllpixPolicy ==
    (Called /\ policy = "allpix")
        => /\ \A e \in emits : e.written <=> InBounds(rkeyimg, e.mx, e.my)
           /\ pc = "voted" =>
                /\ { << r[1], r[2] >> : r \in reads }
                     = { p \in Pixels(rkeyimg.rows, rkeyimg.cols) :
                           /\ 1 <= p[1] /\ p[1] <= rkeyimg.rows - 2
                           /\ 1 <= p[2] /\ p[2] <= rkeyimg.cols - 2 }
                /\ DOMAIN rvotes = Pixels(rkeyimg.rows, rkeyimg.cols)
                /\ \A c \in DOMAIN rvotes :
                     rvotes[c] = SumW({ e \in emits :
                                          /\ InBounds(rkeyimg, e.mx, e.my)
                                          /\ << e.my, e.mx >> = c }) % VoteModulus

\* an all-pixel call that wrote one vote and dropped another
C7_Witness ==
    /\ pc = "voted"
    /\ policy = "allpix"
    /\ \E e \in emits : e.written
    /\ \E e \in emits : ~e.written

\* cells within half the template's extent of a scene border
BorderRing ==
    { c \in Pixels(rkeyimg.rows, rkeyimg.cols) :
        \/ c[1] < HalfH \/ c[1] >= rkeyimg.rows - HalfH
        \/ c[2] < HalfW \/ c[2] >= rkeyimg.cols - HalfW }

\* C8: after strict voting every cell of the border ring is 0 (here: in a
\* call whose writes all fall inside the accumulator).
C8_StrictRingZero ==
    (StrictDone /\ \A e \in emits : InBounds(rkeyimg, e.mx, e.my))
        => \A c \in BorderRing : rvotes[c] = 0

\* C9: a table built from a zero-size or all-zero code image has only empty
\* entries and a vote total of 0, and voting any scene against it makes no
\* invalid access and yields an all-zero accumulator.
C9_DegenerateTemplate ==
    (Built /\ NonzeroPixels(rgrad) = {})
        => /\ \A k \in 1 .. Len(m_ghtable.elems) : m_ghtable.elems[k] = <<>>
           /\ m_ghtable.total_votes = 0
           /\ Called => /\ ReadsValid
                        /\ pc = "voted"
                        /\ \A c \in DOMAIN rvotes : rvotes[c] = 0

\* C10: after any sequence of builds the table is the one the last build
\* alone makes on a fresh matcher, and it votes as that table does.
C10_RebuildIdempotent ==
    Built =>
        LET fresh == FillTable(ClearedTable, rgrad, ClampScale(scale))
        IN  /\ m_ghtable = fresh
            /\ (pc = "voted" /\ SceneValid(rkeyimg, fresh) /\ policy = "strict")
                  => rvotes = StrictVotes(rkeyimg, fresh)
            /\ (pc = "voted" /\ SceneValid(rkeyimg, fresh) /\ policy = "allpix")
                  => rvotes = AllpixVotes(rkeyimg, fresh)

\* a table with merged entries built over an earlier table
C10_Witness ==
    /\ rebuilt
    /\ pc = "idle"
    /\ m_ghtable.total_votes = 2
    /\ m_ghtable.total_entries = 1

\* template pixels of code c whose offset under the table's scale is q
PixelsAt(c, q) ==
    { p \in NonzeroPixels(rgrad) :
        rgrad.pix[p] = c /\ OffsetPt(rgrad, ClampScale(scale), p) = q }

\* C12: no code of a built table holds two entries with the same offset, and
\* the weight of an entry is the number of template pixels of that code that
\* map to its offset.
C12_CollisionsMerged ==
    Built => \A k \in 1 .. Len(m_ghtable.elems) :
                LET L == m_ghtable.elems[k]
                IN  /\ \A i, j \in 1 .. Len(L) : L[i].pt = L[j].pt => i = j
                    /\ \A i \in 1 .. Len(L) :
                          L[i].votes = Cardinality(PixelsAt(k - 1, L[i].pt))

\* a table whose code 1 holds one merged entry of weight 2 at offset (0, 0)
\* from a template three columns wide
C12_Witness ==
    /\ Built
    /\ rgrad.cols = 3
    /\ m_ghtable.elem_ct = 2
    /\ m_ghtable.elems[2] = << [pt |-> [x |-> 0, y |-> 0], votes |-> 2] >>

\* q is fac * v truncated toward zero (fac = <<num, den>>)
IsTrunc(q, fac, v) ==
    LET n == fac[1] * v
        an == IF n < 0 THEN -n ELSE n
        aq == IF q < 0 THEN -q ELSE q
    IN  /\ aq * fac[2] <= an
        /\ an < (aq + 1) * fac[2]
        /\ (q > 0 => n > 0)
        /\ (q < 0 => n < 0)

\* the clamped scale factor, written out
Fac == IF scale[1] * 10 < scale[2] THEN <<1, 10>>
       ELSE IF scale[1] > 10 * scale[2] THEN <<10, 1>>
       ELSE scale

\* C13: for every template pixel (row i, column j) of nonzero code c the
\* entry list of c holds the offset (trunc(f * (cols/2 - j)),
\* trunc(f * (rows/2 - i))), and every offset stored under c comes from such
\* a pixel.
C13_OffsetComputation ==
    Built =>
      /\ \A p \in NonzeroPixels(rgrad) :
            \E e \in { m_ghtable.elems[rgrad.pix[p] + 1][i] :
                          i \in 1 .. Len(m_ghtable.elems[rgrad.pix[p] + 1]) } :
               /\ IsTrunc(e.pt.x, Fac, (rgrad.cols \div 2) - p[2])
               /\ IsTrunc(e.pt.y, Fac, (rgrad.rows \div 2) - p[1])
      /\ \A k \in 1 .. Len(m_ghtable.elems) :
            \A i \in 1 .. Len(m_ghtable.elems[k]) :
               \E p \in NonzeroPixels(rgrad) :
                  /\ rgrad.pix[p] = k - 1
                  /\ IsTrunc(m_ghtable.elems[k][i].pt.x, Fac, (rgrad.cols \div 2) - p[2])
                  /\ IsTrunc(m_ghtable.elems[k][i].pt.y, Fac, (rgrad.rows \div 2) - p[1])

\* a table built at scale 1.5 with an offset truncated from -1.5 to -1 and
\* one truncated from 1.5 to 1
C13_Witness ==
    /\ Built
    /\ scale = <<3, 2>>
    /\ \E k \in 1 .. Len(m_ghtable.elems) :
          /\ \E i \in 1 .. Len(m_ghtable.elems[k]) : m_ghtable.elems[k][i].pt.x = -1
          /\ \E i \in 1 .. Len(m_ghtable.elems[k]) : m_ghtable.elems[k][i].pt.x = 1

\* largest template extent for which the offsets are compared in C18
WideCols == 41

\* C18: every scale value builds a table: a scale below 0.1 builds the table
\* of scale 0.1 and a scale above 10.0 the table of scale 10.0 (also for the
\* offsets of a template WideCols wide); the table never stays the old one.
C18_ScaleClamped ==
    Built =>
      LET lo == scale[1] * 10 < scale[2]
          hi == scale[1] > 10 * scale[2]
          wide == [rows |-> 1, cols |-> WideCols]
      IN  /\ lo => /\ m_ghtable = FillTable(ClearedTable, rgrad, <<1, 10>>)
                   /\ \A j \in 0 .. WideCols - 1 :
                         OffsetPt(wide, ClampScale(scale), <<0, j>>)
                           = OffsetPt(wide, <<1, 10>>, <<0, j>>)
          /\ hi => /\ m_ghtable = FillTable(ClearedTable, rgrad, <<10, 1>>)
                   /\ \A j \in 0 .. WideCols - 1 :
                         OffsetPt(wide, ClampScale(scale), <<0, j>>)
                           = OffsetPt(wide, <<10, 1>>, <<0, j>>)
          /\ m_ghtable.img_sz = [width |-> rgrad.cols, height |-> rgrad.rows]

\* a table built over another one with scale 20, holding an offset of 10
C18_Witness ==
    /\ rebuilt
    /\ scale = <<20, 1>>
    /\ \E k \in 1 .. Len(m_ghtable.elems) :
          \E i \in 1 .. Len(m_ghtable.elems[k]) : m_ghtable.elems[k][i].pt.x = 10

C19_VotingTerminates ==
    (policy # "none" /\ ijstep < 1) => pc = "voted"

\* C17: the mouse state becomes MACQ only from MPT1 and only when the
\* event delivered is a left-button double-click.
C17_AcquireOnDoubleClick ==
    [][(mouse'.mstate = "MACQ" /\ mouse.mstate # "MACQ")
          => (mouse.mstate = "MPT1" /\ mouse'.event = "EVENT_LBUTTONDBLCLK")]_vars

\* C14: for every value of m_angstep the largest key of the built table is
\* the encoder's largest code (clamped steps + 1).
C14_SharedMaxCode ==
    Built => m_ghtable.elem_ct - 1 = ClampAngstep(m_angstep) + 1

\* the encoder has run on a gradient field
Encoded == enc.grad # NoImg

C20_WrapSameCode ==
    Encoded =>
      \A p, q \in Pixels(enc.grad.rows, enc.grad.cols) :
         (/\ enc.rmgo.pix[p] # 0 /\ enc.rmgo.pix[q] # 0
          /\ enc.grad.pix[p].ang = AngDen /\ enc.grad.pix[q].ang = 0)
            => enc.rmgo.pix[p] = enc.rmgo.pix[q]

\* C16: the table a voting pass reads while a rebuild runs is the complete
\* old table or the complete new table.
C16_AtomicReplacement ==
    race.read
        => \/ race.seen = race.old
           \/ race.seen = FillTable(race.old, race.img, ClampScale(<<1, 1>>))

\* C21: the accumulator of a voting call has the dimensions of the scene and
\* is the value determined by the scene codes, the table and the policy alone
\* (votes added to an all-zero image), whatever the call found in memory.
C21_AccumulatorFunction ==
    Called =>
      /\ pc = "voted"
      /\ DOMAIN rvotes = Pixels(rkeyimg.rows, rkeyimg.cols)
      /\ rvotes = IF policy = "strict" THEN StrictVotes(rkeyimg, m_ghtable)
                  ELSE AllpixVotes(rkeyimg, m_ghtable)

\* C22: whatever loads and acquisitions came before, m_max_votes is the
\* ideal vote total of the table the matcher holds: the peak of the votes of
\* the table's own template, as load_template measures it.
C22_MaxVotesOfCurrentTable ==
    m_max_votes = Peak(AllpixVotes(rgrad, m_ghtable))

\* C23: a pixel has a nonzero code only if its magnitude is strictly above
\* peak magnitude x fraction; so a flat field gives an all-zero code image
\* for every fraction, 0 included, and the fraction 1 leaves no pixel.
C23_MagnitudeMask ==
    Encoded =>
      LET P == Pixels(enc.grad.rows, enc.grad.cols)
          peak == PeakMag(enc.grad)
      IN  /\ \A p \in P :
                enc.rmgo.pix[p] # 0
                   => enc.grad.pix[p].mag * enc.thr[2] > peak * enc.thr[1]
          /\ peak = 0 => \A p \in P : enc.rmgo.pix[p] = 0
          /\ enc.thr = <<1, 1>> => \A p \in P : enc.rmgo.pix[p] = 0

\* a field with a nonzero peak encoded with the fraction 1: the peak pixel
\* is masked with the rest
C23_Witness ==
    /\ Encoded
    /\ enc.thr = <<1, 1>>
    /\ enc.grad.cols = 2
    /\ PeakMag(enc.grad) = MaxMag
    /\ \A p \in Pixels(enc.grad.rows, enc.grad.cols) : enc.rmgo.pix[p] = 0

\* C24: the entry of code 0 of every built table is empty, and no vote of a
\* voting call, under either policy, comes from a scene pixel of code 0.
C24_CodeZeroNeverVotes ==
    Built =>
      /\ m_ghtable.elems[1] = <<>>
      /\ Called => \A e \in emits : rkeyimg.pix[e.src] # 0

\* a call over a table built from an image with zero and nonzero pixels
\* that visited a scene pixel of code 0 and one that voted
C24_Witness ==
    /\ Built
    /\ pc = "voted"
    /\ \E p \in Pixels(rgrad.rows, rgrad.cols) : rgrad.pix[p] = 0
    /\ m_ghtable.total_votes > 0
    /\ \E r \in reads : r[3] = 0
    /\ emits # {}

\* C25: after a voting call over a built table, under either policy, every
\* cell of the accumulator is at most the table's total vote weight.
C25_ScoreBound ==
    (pc = "voted" /\ Built)
        => \A c \in DOMAIN rvotes : rvotes[c] <= m_ghtable.total_votes

\* C26: a voting call on a matcher whose table is cleared (after
\* construction or init, before any build) reads no missing table entry and
\* returns an all-zero accumulator.
C26_VotingSafeBeforeBuild ==
    (Called /\ m_ghtable = ClearedTable)
        => /\ ReadsValid
           /\ pc = "voted"
           /\ \A c \in DOMAIN rvotes : rvotes[c] = 0

\* C27: create_ghough_table returns for every 8-bit code image: the loop
\* that adds the blank entries is left, also when the image holds code 255.
C27_BuildTerminates ==
    (race.bpc = "blank") ~> (race.bpc = "idle")

\* cells a whole template width and height away from every scene border
InteriorWhole ==
    { c \in Pixels(rkeyimg.rows, rkeyimg.cols) :
        /\ m_ghtable.img_sz.height <= c[1]
        /\ c[1] <= rkeyimg.rows - 1 - m_ghtable.img_sz.height
        /\ m_ghtable.img_sz.width <= c[2]
        /\ c[2] <= rkeyimg.cols - 1 - m_ghtable.img_sz.width }

\* C28: for a table built at scale 1 from a template of at least 2 x 2 and
\* any scene, every cell at least w columns and h rows from the borders has
\* the same value after a strict call and after an all-pixel call.
C28_InteriorEquivalence ==
    (/\ pc = "voted" /\ Built /\ scale = <<1, 1>>
     /\ m_ghtable.img_sz.width >= 2 /\ m_ghtable.img_sz.height >= 2)
        => \A c \in InteriorWhole :
              rvotes[c] = IF policy = "strict"
                          THEN AllpixVotes(rkeyimg, m_ghtable)[c]
                          ELSE StrictVotes(rkeyimg, m_ghtable)[c]

\* the changes of mstate that follow the order of an acquisition
MouseOrder ==
    { <<"MOFF", "MPT0">>, <<"MPT0", "MMOV">>, <<"MMOV", "MPT1">>, <<"MPT1", "MACQ">> }

\* the MouseInfo after clear(), in MOFF or, when the same loop iteration
\* went on to apply(true), in MPT0
MouseCleared(m) ==
    /\ m.mstate \in {"MOFF", "MPT0"}
    /\ m.pt0 = Point(0, 0) /\ m.pt1 = Point(0, 0)
    /\ m.rect = [x |-> 0, y |-> 0, width |-> 0, height |-> 0]

\* C29: in MOFF no step changes the points or the rectangle and the state
\* can only become MPT0; the state otherwise advances only along MPT0, MMOV,
\* MPT1, MACQ or is cleared by the loop; the rectangle changes only in a
\* step taken from MPT0 or MMOV, or when it is cleared with the state.
C29_MouseStateOrder ==
    [][/\ mouse.mstate = "MOFF"
            => /\ mouse'.mstate \in {"MOFF", "MPT0"}
               /\ mouse'.pt0 = mouse.pt0 /\ mouse'.pt1 = mouse.pt1
               /\ mouse'.rect = mouse.rect
       /\ mouse'.mstate # mouse.mstate
            => \/ << mouse.mstate, mouse'.mstate >> \in MouseOrder
               \/ MouseCleared(mouse')
       /\ mouse'.rect # mouse.rect
            => \/ mouse.mstate \in {"MPT0", "MMOV"}
               \/ MouseCleared(mouse')]_vars

\* the state MACQ with a rectangle one pixel wide and high, drawn by a
\* button down, a move and a button up
C29_Witness ==
    /\ mouse.mstate = "MACQ"
    /\ mouse.rect.width = 1
    /\ mouse.rect.height = 1
    /\ mouse.pt0 # mouse.pt1

\* C30: the loop iteration that finds mstate = MACQ rebuilds the table from
\* the rectangle once and ends with mstate = MOFF, the rectangle cleared and
\* the acquisition mode off, whatever events and key presses came before.
C30_AcquisitionEndsOff ==
    [][(mouse.mstate = "MACQ" /\ mouse'.mstate # "MACQ")
          => /\ rgrad' \in AcqImages(mouse.rect)
             /\ m_ghtable' = FillTable(m_ghtable, rgrad', ClampScale(<<1, 1>>))
             /\ mouse'.mstate = "MOFF"
             /\ mouse'.rect = [x |-> 0, y |-> 0, width |-> 0, height |-> 0]
             /\ ~mouse'.acq]_vars

====
